---- MODULE Spec2Model ----
(***************************************************************************)
(* A model of api/index.js: an Express application that forwards list,     *)
(* delete and create/update requests for one repository to the hosting     *)
(* API (the octokit.repos client) behind a shared API key.                 *)
(*                                                                         *)
(* Every handler is an async function: it runs synchronously up to an      *)
(* `await octokit.repos.X(...)`, is suspended while the call is in flight  *)
(* and resumes with the call's result or its rejection.  One action models *)
(* each synchronous segment; the action Remote models the hosting API      *)
(* serving one call that is in flight.  Two request slots let two requests *)
(* interleave at their awaits.                                             *)
(***************************************************************************)
EXTENDS Naturals, Sequences, FiniteSets, TLC

VARIABLES files, req, pc, loc, log, resp

vars == <<files, req, pc, loc, log, resp>>

(***************************************************************************)
(* Bounds of the model.                                                    *)
(***************************************************************************)
\* Number of files the directory "d" can hold.
DirFiles == 2
\* Number of distinct non-empty file contents.
NumContents == 2

Slots == {1, 2}

(***************************************************************************)
(* JavaScript values read from a request: undefined, a string, a number.   *)
(***************************************************************************)
Undefined == [t |-> "undefined", s |-> ""]

Str(x) == [t |-> "string", s |-> x]

\* A non-zero number (truthy, and not a string).
Num == [t |-> "number", s |-> "7"]

\* !v for the values above.
Falsy(v) == v.t = "undefined" \/ (v.t = "string" /\ v.s = "")

\* process.env.API_KEY
API_KEY == Str("secret")

(***************************************************************************)
(* The repository behind the hosting API: a top-level file "a", a          *)
(* directory "d" holding the files d/f1 .. d/fN and one subdirectory.      *)
(***************************************************************************)
Content(i) == "c" \o ToString(i)

Contents == {Content(i) : i \in 1..NumContents}

DirChild(i) == "d/f" \o ToString(i)

SubDir == "d/f1.d"

FilePaths == {"a"} \cup {DirChild(i) : i \in 1..DirFiles}

TreePaths == {"", "d", SubDir}

Absent == [kind |-> "absent", content |-> ""]

File(c) == [kind |-> "file", content |-> c]

Tree == [kind |-> "dir", content |-> ""]

\* What the repository holds at path p.
PathState(fs, p) ==
    IF p \in FilePaths THEN fs[p]
    ELSE IF p \in TreePaths THEN Tree
    ELSE Absent

\* The sha of a blob is a function of its content alone.
BlobSha(c) == <<"blob", c>>

TreeSha(p) == <<"tree", p>>

\* sha: undefined
NoSha == <<>>

\* The transport encoding of a file's content and its inverse.
Base64(s) == <<"base64", s>>

FromBase64(e) == e[2]

NoContent == <<>>

Entry(fs, p) ==
    IF p \in FilePaths
    THEN [path |-> p, type |-> "file", sha |-> BlobSha(fs[p].content)]
    ELSE [path |-> p, type |-> "dir", sha |-> TreeSha(p)]

\* The names under "d" in listing order: d/f1, d/f1.d, d/f2, d/f3, ...
DirNames ==
    [k \in 1..(DirFiles + 1) |->
        IF k = 1 THEN DirChild(1)
        ELSE IF k = 2 THEN SubDir
        ELSE DirChild(k - 1)]

RootNames == <<"a", "d">>

RECURSIVE Listing(_, _)
Listing(fs, names) ==
    IF names = <<>> THEN <<>>
    ELSE IF PathState(fs, Head(names)).kind = "absent"
         THEN Listing(fs, Tail(names))
         ELSE <<Entry(fs, Head(names))>> \o Listing(fs, Tail(names))

(***************************************************************************)
(* Results of a call to the hosting API.                                   *)
(***************************************************************************)
NoData == [kind |-> "none", sha |-> NoSha, entries |-> <<>>]

FileData(sha) == [kind |-> "file", sha |-> sha, entries |-> <<>>]

DirData(entries) == [kind |-> "dir", sha |-> NoSha, entries |-> entries]

Pending == [status |-> "pending", data |-> NoData, message |-> ""]

Ok(data) == [status |-> "ok", data |-> data, message |-> ""]

\* A rejected call: the handler catches an error carrying this message.
Err(message) == [status |-> "error", data |-> NoData, message |-> message]

\* octokit.repos.getContent({owner, repo, path})
GetContent(fs, path) ==
    LET st == PathState(fs, path) IN
    [files |-> fs,
     reply |-> IF st.kind = "absent" THEN Err("Not Found")
               ELSE IF st.kind = "file" THEN Ok(FileData(BlobSha(st.content)))
               ELSE IF path = "" THEN Ok(DirData(Listing(fs, RootNames)))
               ELSE IF path = "d" THEN Ok(DirData(Listing(fs, DirNames)))
               ELSE Ok(DirData(<<>>))]

\* octokit.repos.deleteFile({owner, repo, path, message, sha})
DeleteFile(fs, path, sha) ==
    LET st == PathState(fs, path) IN
    IF st.kind # "file" THEN [files |-> fs, reply |-> Err("Not Found")]
    ELSE IF sha # BlobSha(st.content)
         THEN [files |-> fs, reply |-> Err("Conflict")]
         ELSE [files |-> [fs EXCEPT ![path] = Absent], reply |-> Ok(NoData)]

\* octokit.repos.createOrUpdateFileContents({owner, repo, path, message, content, sha})
CreateOrUpdateFileContents(fs, path, content, sha) ==
    LET st == PathState(fs, path) IN
    IF path \notin FilePaths
    THEN [files |-> fs, reply |-> Err("Unprocessable")]
    ELSE IF st.kind = "absent"
         THEN IF sha = NoSha
              THEN [files |-> [fs EXCEPT ![path] = File(FromBase64(content))],
                    reply |-> Ok(NoData)]
              ELSE [files |-> fs, reply |-> Err("Unprocessable")]
         ELSE IF sha = NoSha
              THEN [files |-> fs, reply |-> Err("Unprocessable")]
              ELSE IF sha # BlobSha(st.content)
                   THEN [files |-> fs, reply |-> Err("Conflict")]
                   ELSE [files |-> [fs EXCEPT ![path] = File(FromBase64(content))],
                         reply |-> Ok(NoData)]

(***************************************************************************)
(* Calls in flight.  log[r] holds, in the order they were issued, the      *)
(* calls request r has made, each with its result once the hosting API has *)
(* served it.  `pre` and `at` are history: what the repository held at the *)
(* call's path when the call was served, and the call's place in the order *)
(* in which the hosting API served all calls.                              *)
(***************************************************************************)
CallRec(op, path, sha, content, message) ==
    [op |-> op, path |-> path, sha |-> sha, content |-> content,
     message |-> message, reply |-> Pending, pre |-> Absent, at |-> 0]

Served ==
    {p \in UNION {{<<s, k>> : k \in 1..Len(log[s])} : s \in Slots} :
        log[p[1]][p[2]].reply.status # "pending"}

Exec(fs, c) ==
    IF c.op = "getContent" THEN GetContent(fs, c.path)
    ELSE IF c.op = "deleteFile" THEN DeleteFile(fs, c.path, c.sha)
    ELSE CreateOrUpdateFileContents(fs, c.path, c.content, c.sha)

\* The hosting API serves call k of request r, or the call fails before it
\* is served (no credentials, rate limit, outage).
Remote(r) ==
    \E k \in 1..Len(log[r]) :
        /\ log[r][k].reply.status = "pending"
        /\ \E up \in BOOLEAN :
            LET c == log[r][k]
                out == IF up THEN Exec(files, c)
                       ELSE [files |-> files, reply |-> Err("Outage")]
            IN /\ files' = out.files
               /\ log' = [log EXCEPT ![r][k] =
                            [c EXCEPT !.reply = out.reply,
                                      !.pre = PathState(files, c.path),
                                      !.at = Cardinality(Served) + 1]]
        /\ UNCHANGED <<req, pc, loc, resp>>

(***************************************************************************)
(* Responses.                                                              *)
(***************************************************************************)
NoResponse == [status |-> 0, shape |-> "none", error |-> <<>>, message |-> <<>>,
               success |-> "absent", results |-> <<>>, data |-> NoData]

\* res.status(status).json({ error: ... })
ErrorResponse(status, error) ==
    [NoResponse EXCEPT !.status = status, !.shape = "error", !.error = error]

\* res.json({ success: true, message: ... })
SuccessResponse(message) ==
    [NoResponse EXCEPT !.status = 200, !.shape = "success",
                       !.success = "true", !.message = message]

\* res.json(response.data)
DataResponse(data) ==
    [NoResponse EXCEPT !.status = 200, !.shape = "data", !.data = data]

NoLoc == [items |-> <<>>, i |-> 0, results |-> <<>>]

\* The handler of request r answers: the request is over.
Respond(r, response) ==
    /\ resp' = [resp EXCEPT ![r] = response]
    /\ pc' = [pc EXCEPT ![r] = "done"]
    /\ UNCHANGED <<files, req, loc, log>>

\* The handler of request r issues a call and is suspended at `label`.
Await(r, call, label, newloc) ==
    /\ log' = [log EXCEPT ![r] = Append(@, call)]
    /\ pc' = [pc EXCEPT ![r] = label]
    /\ loc' = [loc EXCEPT ![r] = newloc]
    /\ UNCHANGED <<files, req, resp>>

\* The result of the call request r is suspended on.
Reply(r) == log[r][Len(log[r])].reply

Returned(r) == Len(log[r]) > 0 /\ Reply(r).status # "pending"

\* Variant: the loop does not look at the item's type.
NextOfAnyType(items, from, type) ==
    IF from <= Len(items) THEN from ELSE 0

\* for (const item of items) from position `from` on: the next item whose
\* type is `type`, 0 when there is none.
NextOfType(items, from, type) ==
    LET S == {k \in from..Len(items) : items[k].type = type}
    IN IF S = {} THEN 0 ELSE CHOOSE k \in S : \A j \in S : k <= j

(***************************************************************************)
(* checkApiKey                                                             *)
(***************************************************************************)
\* Variant: a request without the header is let through.
CheckApiKeyWhenPresent(providedKey) ==
    Falsy(providedKey) \/ providedKey = API_KEY

CheckApiKey(providedKey) ==
    ~(Falsy(providedKey) \/ providedKey # API_KEY)

Unauthorized == ErrorResponse(401, <<"Unauthorized - Invalid API key">>)

(***************************************************************************)
(* GET /api                                                                *)
(***************************************************************************)
Root(r) ==
    /\ pc[r] = "recv"
    /\ req[r].route = "root"
    /\ Respond(r, [NoResponse EXCEPT !.status = 200, !.shape = "message",
                       !.message = <<"GitHub Assistant API is running!">>])

(***************************************************************************)
(* GET /api/list                                                           *)
(***************************************************************************)
ListPath(path) == IF Falsy(path) THEN "" ELSE path.s

ListStart(r) ==
    /\ pc[r] = "recv"
    /\ req[r].route = "list"
    /\ IF ~CheckApiKey(req[r].key)
       THEN Respond(r, Unauthorized)
       ELSE Await(r, CallRec("getContent", ListPath(req[r].path), NoSha,
                             NoContent, <<>>), "list", NoLoc)

ListResponse(reply) ==
    IF reply.status = "ok" THEN DataResponse(reply.data)
    ELSE ErrorResponse(500, <<reply.message>>)

ListResume(r) ==
    /\ pc[r] = "list"
    /\ Returned(r)
    /\ Respond(r, ListResponse(Reply(r)))

(***************************************************************************)
(* POST /api/delete                                                        *)
(***************************************************************************)
DeleteInvalid(path) == Falsy(path)

\* Variant: the lookup's error reaches the handler's outer catch.
DeleteLookupRethrown(reply) == ErrorResponse(500, <<reply.message>>)

\* catch around the lookup of the file's sha
DeleteLookupFailed(reply) ==
    ErrorResponse(404, <<"File not found: ", reply.message>>)

\* The outcome of one file of a directory: try { await deleteFile } catch
ItemResult(reply, item) ==
    IF reply.status = "ok"
    THEN [path |-> item.path, success |-> "true", error |-> <<>>]
    ELSE [path |-> item.path, success |-> "absent", error |-> <<reply.message>>]

\* Variant: the batch reports success only when every file was deleted.
BatchResponseStrict(results, path) ==
    [NoResponse EXCEPT !.status = 200, !.shape = "batch",
                       !.success = IF \A j \in 1..Len(results) :
                                         results[j].success = "true"
                                    THEN "true" ELSE "false",
                       !.results = results,
                       !.message = <<"Processed directory ", path>>]

BatchResponse(results, path) ==
    [NoResponse EXCEPT !.status = 200, !.shape = "batch", !.success = "true",
                       !.results = results,
                       !.message = <<"Processed directory ", path>>]

DeleteOneResponse(reply, path) ==
    IF reply.status = "ok" THEN SuccessResponse(<<"Deleted file ", path>>)
    ELSE ErrorResponse(500, <<reply.message>>)

DeleteCall(path, sha) ==
    CallRec("deleteFile", path, sha, NoContent, <<"Delete ", path>>)

DeleteStart(r) ==
    /\ pc[r] = "recv"
    /\ req[r].route = "delete"
    /\ IF ~CheckApiKey(req[r].key)
       THEN Respond(r, Unauthorized)
       ELSE IF DeleteInvalid(req[r].path)
       THEN Respond(r, ErrorResponse(400, <<"Path is required">>))
       ELSE Await(r, CallRec("getContent", req[r].path.s, NoSha, NoContent, <<>>),
                  "delete", NoLoc)

DeleteAfterGet(r) ==
    /\ pc[r] = "delete"
    /\ Returned(r)
    /\ LET fileData == Reply(r).data
           path == req[r].path.s
           k == NextOfType(fileData.entries, 1, "file")
       IN IF Reply(r).status = "error"
          THEN Respond(r, DeleteLookupFailed(Reply(r)))
          ELSE IF fileData.kind = "dir"
          THEN IF k = 0
               THEN Respond(r, BatchResponse(<<>>, path))
               ELSE Await(r, DeleteCall(fileData.entries[k].path,
                                        fileData.entries[k].sha),
                          "deleteItem",
                          [items |-> fileData.entries, i |-> k, results |-> <<>>])
          ELSE Await(r, DeleteCall(path, fileData.sha), "deleteOne", NoLoc)

DeleteItemResume(r) ==
    /\ pc[r] = "deleteItem"
    /\ Returned(r)
    /\ LET items == loc[r].items
           results == Append(loc[r].results, ItemResult(Reply(r), items[loc[r].i]))
           k == NextOfType(items, loc[r].i + 1, "file")
       IN IF k = 0
          THEN Respond(r, BatchResponse(results, req[r].path.s))
          ELSE Await(r, DeleteCall(items[k].path, items[k].sha), "deleteItem",
                     [items |-> items, i |-> k, results |-> results])

DeleteOneResume(r) ==
    /\ pc[r] = "deleteOne"
    /\ Returned(r)
    /\ Respond(r, DeleteOneResponse(Reply(r), req[r].path.s))

(***************************************************************************)
(* POST /api/create                                                        *)
(***************************************************************************)
\* Variant: only the path is validated.
CreateInvalidPathOnly(path, content) == Falsy(path)

CreateInvalid(path, content) == Falsy(path) \/ Falsy(content)

\* let sha; try { sha = (await getContent).data.sha } catch { }
CreateSha(reply) == IF reply.status = "ok" THEN reply.data.sha ELSE NoSha

\* message || `Update ${path}`
CommitMessage(message, path) ==
    IF Falsy(message) THEN <<"Update ", path>> ELSE <<message.s>>

\* Buffer.from(content) throws a TypeError for a number.
BufferFromThrows(content) == content.t # "string"

\* Variant: the write's rejection is not reported.
CreateResponseAlways(reply, path) == SuccessResponse(<<"Updated ", path>>)

CreateResponse(reply, path) ==
    IF reply.status = "ok" THEN SuccessResponse(<<"Updated ", path>>)
    ELSE ErrorResponse(500, <<reply.message>>)

CreateStart(r) ==
    /\ pc[r] = "recv"
    /\ req[r].route = "create"
    /\ IF ~CheckApiKey(req[r].key)
       THEN Respond(r, Unauthorized)
       ELSE IF CreateInvalid(req[r].path, req[r].content)
       THEN Respond(r, ErrorResponse(400, <<"Path and content are required">>))
       ELSE Await(r, CallRec("getContent", req[r].path.s, NoSha, NoContent, <<>>),
                  "create", NoLoc)

CreateAfterGet(r) ==
    /\ pc[r] = "create"
    /\ Returned(r)
    /\ LET sha == CreateSha(Reply(r))
           path == req[r].path.s
       IN IF BufferFromThrows(req[r].content)
          THEN Respond(r, ErrorResponse(500, <<"TypeError">>))
          ELSE Await(r, CallRec("createOrUpdateFileContents", path, sha,
                                Base64(req[r].content.s),
                                CommitMessage(req[r].message, path)),
                     "createPut", NoLoc)

CreateAfterPut(r) ==
    /\ pc[r] = "createPut"
    /\ Returned(r)
    /\ Respond(r, CreateResponse(Reply(r), req[r].path.s))

(***************************************************************************)
(* POST /api/claude: the three operations again, selected by `action`.     *)
(***************************************************************************)
ClaudeListPath(path) == IF Falsy(path) THEN "" ELSE path.s

ClaudeListResponse(reply) ==
    IF reply.status = "ok" THEN DataResponse(reply.data)
    ELSE ErrorResponse(500, <<reply.message>>)

ClaudeDeleteInvalid(path) == Falsy(path)

ClaudeDeleteLookupFailed(reply) ==
    ErrorResponse(404, <<"File not found: ", reply.message>>)

ClaudeItemResult(reply, item) ==
    IF reply.status = "ok"
    THEN [path |-> item.path, success |-> "true", error |-> <<>>]
    ELSE [path |-> item.path, success |-> "absent", error |-> <<reply.message>>]

ClaudeBatchResponse(results, path) ==
    [NoResponse EXCEPT !.status = 200, !.shape = "batch", !.success = "true",
                       !.results = results,
                       !.message = <<"Processed directory ", path>>]

ClaudeDeleteOneResponse(reply, path) ==
    IF reply.status = "ok" THEN SuccessResponse(<<"Deleted file ", path>>)
    ELSE ErrorResponse(500, <<reply.message>>)

ClaudeDeleteCall(path, sha) ==
    CallRec("deleteFile", path, sha, NoContent, <<"Delete ", path>>)

ClaudeCreateInvalid(path, content) == Falsy(path) \/ Falsy(content)

ClaudeCreateSha(reply) == IF reply.status = "ok" THEN reply.data.sha ELSE NoSha

\* Variant: the commit message has no default.
ClaudeCommitMessageGiven(message, path) == <<message.s>>

ClaudeCommitMessage(message, path) ==
    IF Falsy(message) THEN <<"Update ", path>> ELSE <<message.s>>

ClaudeCreateResponse(reply, path) ==
    IF reply.status = "ok" THEN SuccessResponse(<<"Updated ", path>>)
    ELSE ErrorResponse(500, <<reply.message>>)

InvalidAction ==
    ErrorResponse(400, <<"Invalid action. Use 'list', 'delete', or 'create'">>)

ClaudeStart(r) ==
    /\ pc[r] = "recv"
    /\ req[r].route = "claude"
    /\ LET action == req[r].action
           path == req[r].path
           content == req[r].content
       IN IF ~CheckApiKey(req[r].key)
          THEN Respond(r, Unauthorized)
          ELSE IF action = Str("list")
          THEN Await(r, CallRec("getContent", ClaudeListPath(path), NoSha,
                                NoContent, <<>>), "claudeList", NoLoc)
          ELSE IF action = Str("delete")
          THEN IF ClaudeDeleteInvalid(path)
               THEN Respond(r, ErrorResponse(400, <<"Path is required">>))
               ELSE Await(r, CallRec("getContent", path.s, NoSha, NoContent, <<>>),
                          "claudeDelete", NoLoc)
          ELSE IF action = Str("create")
          THEN IF ClaudeCreateInvalid(path, content)
               THEN Respond(r, ErrorResponse(400,
                                   <<"Path and content are required">>))
               ELSE Await(r, CallRec("getContent", path.s, NoSha, NoContent, <<>>),
                          "claudeCreate", NoLoc)
          ELSE Respond(r, InvalidAction)

ClaudeListResume(r) ==
    /\ pc[r] = "claudeList"
    /\ Returned(r)
    /\ Respond(r, ClaudeListResponse(Reply(r)))

ClaudeDeleteAfterGet(r) ==
    /\ pc[r] = "claudeDelete"
    /\ Returned(r)
    /\ LET fileData == Reply(r).data
           path == req[r].path.s
           k == NextOfType(fileData.entries, 1, "file")
       IN IF Reply(r).status = "error"
          THEN Respond(r, ClaudeDeleteLookupFailed(Reply(r)))
          ELSE IF fileData.kind = "dir"
          THEN IF k = 0
               THEN Respond(r, ClaudeBatchResponse(<<>>, path))
               ELSE Await(r, ClaudeDeleteCall(fileData.entries[k].path,
                                              fileData.entries[k].sha),
                          "claudeDeleteItem",
                          [items |-> fileData.entries, i |-> k, results |-> <<>>])
          ELSE Await(r, ClaudeDeleteCall(path, fileData.sha), "claudeDeleteOne",
                     NoLoc)

ClaudeDeleteItemResume(r) ==
    /\ pc[r] = "claudeDeleteItem"
    /\ Returned(r)
    /\ LET items == loc[r].items
           results == Append(loc[r].results,
                             ClaudeItemResult(Reply(r), items[loc[r].i]))
           k == NextOfType(items, loc[r].i + 1, "file")
       IN IF k = 0
          THEN Respond(r, ClaudeBatchResponse(results, req[r].path.s))
          ELSE Await(r, ClaudeDeleteCall(items[k].path, items[k].sha),
                     "claudeDeleteItem",
                     [items |-> items, i |-> k, results |-> results])

ClaudeDeleteOneResume(r) ==
    /\ pc[r] = "claudeDeleteOne"
    /\ Returned(r)
    /\ Respond(r, ClaudeDeleteOneResponse(Reply(r), req[r].path.s))

ClaudeCreateAfterGet(r) ==
    /\ pc[r] = "claudeCreate"
    /\ Returned(r)
    /\ LET sha == ClaudeCreateSha(Reply(r))
           path == req[r].path.s
       IN IF BufferFromThrows(req[r].content)
          THEN Respond(r, ErrorResponse(500, <<"TypeError">>))
          ELSE Await(r, CallRec("createOrUpdateFileContents", path, sha,
                                Base64(req[r].content.s),
                                ClaudeCommitMessage(req[r].message, path)),
                     "claudeCreatePut", NoLoc)

ClaudeCreateAfterPut(r) ==
    /\ pc[r] = "claudeCreatePut"
    /\ Returned(r)
    /\ Respond(r, ClaudeCreateResponse(Reply(r), req[r].path.s))

(***************************************************************************)
(* Requests.                                                               *)
(***************************************************************************)
Request(route, key, action, path, content, message) ==
    [route |-> route, key |-> key, action |-> action, path |-> path,
     content |-> content, message |-> message]

NoRequest == Request("none", Undefined, Undefined, Undefined, Undefined, Undefined)

KeyVals == {Undefined, Str(""), Str("wrong"), API_KEY}

PathVals == {Undefined, Str(""), Str("a"), Str("d")}

ContentVals == {Undefined, Str(""), Num} \cup {Str(c) : c \in Contents}

MessageVals == {Undefined, Str("note")}

ActionVals == {Undefined, Str("purge"), Str("list"), Str("delete"), Str("create")}

Requests ==
    {Request("root", k, Undefined, Undefined, Undefined, Undefined) : k \in KeyVals}
    \cup {Request(rt, k, Undefined, p, Undefined, Undefined) :
            rt \in {"list", "delete"}, k \in KeyVals, p \in PathVals}
    \cup {Request("create", k, Undefined, p, c, m) :
            k \in KeyVals, p \in PathVals, c \in ContentVals, m \in MessageVals}
    \cup {Request("claude", k, a, p, Undefined, Undefined) :
            k \in KeyVals, a \in ActionVals \ {Str("create")}, p \in PathVals}
    \cup {Request("claude", k, Str("create"), p, c, m) :
            k \in KeyVals, p \in PathVals, c \in ContentVals, m \in MessageVals}

InitFiles ==
    {f \in [FilePaths -> {Absent} \cup {File(c) : c \in Contents}] :
        \A i \in 1..DirFiles : f[DirChild(i)] \in {Absent, File(Content(1))}}

InitWith(fs, q1, q2) ==
    /\ files \in fs
    /\ req = [s \in Slots |-> IF s = 1 THEN q1 ELSE q2]
    /\ pc = [s \in Slots |->
                IF (IF s = 1 THEN q1 ELSE q2) = NoRequest THEN "idle" ELSE "recv"]
    /\ loc = [s \in Slots |-> NoLoc]
    /\ log = [s \in Slots |-> <<>>]
    /\ resp = [s \in Slots |-> NoResponse]

\* One request.
Init == \E q \in Requests : InitWith(InitFiles, q, NoRequest)

Next ==
    \E r \in Slots :
        \/ Root(r)
        \/ ListStart(r)
        \/ ListResume(r)
        \/ DeleteStart(r)
        \/ DeleteAfterGet(r)
        \/ DeleteItemResume(r)
        \/ DeleteOneResume(r)
        \/ CreateStart(r)
        \/ CreateAfterGet(r)
        \/ CreateAfterPut(r)
        \/ ClaudeStart(r)
        \/ ClaudeListResume(r)
        \/ ClaudeDeleteAfterGet(r)
        \/ ClaudeDeleteItemResume(r)
        \/ ClaudeDeleteOneResume(r)
        \/ ClaudeCreateAfterGet(r)
        \/ ClaudeCreateAfterPut(r)
        \/ Remote(r)

Spec == Init /\ [][Next]_vars

(***************************************************************************)
(* Two requests in flight together.                                        *)
(***************************************************************************)
\* The request to /api/claude that asks for what q asks of its own route.
ViaClaude(q, action) == [q EXCEPT !.route = "claude", !.action = action]

\* A request to a dedicated route beside the same request to /api/claude
\* (or beside one with an action /api/claude does not know).
TwinRequests ==
    {<<q, ViaClaude(q, a)>> :
        q \in {x \in Requests : /\ x.route \in {"list", "delete", "create"}
                                /\ x.key \in {API_KEY, Str("wrong")}},
        a \in {Undefined, Str("purge")}}
    \cup {<<q, ViaClaude(q, Str(q.route))>> :
            q \in {x \in Requests : /\ x.route \in {"list", "delete", "create"}
                                    /\ x.key \in {API_KEY, Str("wrong")}}}

\* Authorized requests that delete or write the file "a".
Mutators ==
    {q \in Requests :
        /\ q.key = API_KEY
        /\ q.path = Str("a")
        /\ q.message = Undefined
        /\ \/ q.route = "delete"
           \/ q.route = "claude" /\ q.action = Str("delete")
           \/ q.route = "create" /\ q.content \in {Str(c) : c \in Contents}
           \/ /\ q.route = "claude"
              /\ q.action = Str("create")
              /\ q.content \in {Str(c) : c \in Contents}}

\* The repositories whose directory holds all its files.
FullDirFiles == {f \in InitFiles : \A i \in 1..DirFiles : f[DirChild(i)] # Absent}

InitPair ==
    \/ \E p \in TwinRequests : InitWith(InitFiles, p[1], p[2])
    \/ \E p \in Mutators \X Mutators : InitWith(FullDirFiles, p[1], p[2])

NextPair ==
    \E r \in Slots :
        \/ ListStart(r)
        \/ ListResume(r)
        \/ DeleteStart(r)
        \/ DeleteAfterGet(r)
        \/ DeleteItemResume(r)
        \/ DeleteOneResume(r)
        \/ CreateStart(r)
        \/ CreateAfterGet(r)
        \/ CreateAfterPut(r)
        \/ ClaudeStart(r)
        \/ ClaudeListResume(r)
        \/ ClaudeDeleteAfterGet(r)
        \/ ClaudeDeleteItemResume(r)
        \/ ClaudeDeleteOneResume(r)
        \/ ClaudeCreateAfterGet(r)
        \/ ClaudeCreateAfterPut(r)
        \/ Remote(r)

SpecPair == InitPair /\ [][NextPair]_vars

(***************************************************************************)
(* Properties.                                                             *)
(***************************************************************************)
Done(r) == pc[r] = "done"

Authorized(r) == req[r].key.t # "undefined" /\ req[r].key = API_KEY

Protected(r) == req[r].route \in {"list", "delete", "create", "claude"}

IsDelete(r) ==
    \/ req[r].route = "delete"
    \/ req[r].route = "claude" /\ req[r].action = Str("delete")

IsCreate(r) ==
    \/ req[r].route = "create"
    \/ req[r].route = "claude" /\ req[r].action = Str("create")

Empty(v) == v.t = "undefined" \/ v = Str("")

CallsOf(r, op) == {k \in 1..Len(log[r]) : log[r][k].op = op}

IsServed(e) == e.reply.status # "pending"

IsFileEntry(e) == e.type = "file"

\* Request r looked its path up and the lookup returned a directory listing.
ListedDir(r) ==
    /\ IsDelete(r)
    /\ Len(log[r]) >= 1
    /\ log[r][1].op = "getContent"
    /\ log[r][1].reply.status = "ok"
    /\ log[r][1].reply.data.kind = "dir"

\* The file entries of that listing, in the listing's order.
ListedFiles(r) == SelectSeq(log[r][1].reply.data.entries, IsFileEntry)

\* C1: on every protected route a request whose x-api-key header is absent
\* or differs from the configured key issues no call to the hosting API and
\* is answered 401 {error: "Unauthorized - Invalid API key"}.
C1_UnauthorizedIs401 ==
    \A r \in Slots :
        (Protected(r) /\ (req[r].key.t = "undefined" \/ req[r].key # API_KEY)) =>
            /\ log[r] = <<>>
            /\ pc[r] \in {"recv", "done"}
            /\ Done(r) =>
                /\ resp[r].status = 401
                /\ resp[r].shape = "error"
                /\ resp[r].error = <<"Unauthorized - Invalid API key">>

C1_Witness ==
    \E r \in Slots :
        /\ req[r].route = "create"
        /\ req[r].key = Undefined
        /\ req[r].path = Str("a")
        /\ Done(r)
        /\ resp[r].status = 401

C4_DeleteMissingIs404 ==
    \A r \in Slots :
        (/\ IsDelete(r)
         /\ Authorized(r)
         /\ ~Empty(req[r].path)
         /\ Len(log[r]) >= 1
         /\ IsServed(log[r][1])
         /\ log[r][1].pre.kind = "absent") =>
            /\ CallsOf(r, "deleteFile") = {}
            /\ Len(log[r]) = 1
            /\ Done(r) =>
                /\ resp[r].status = 404
                /\ resp[r].shape = "error"
                /\ Len(resp[r].error) >= 1
                /\ resp[r].error[1] = "File not found: "

C4_Witness ==
    \E r \in Slots :
        /\ req[r].route = "delete"
        /\ Len(log[r]) = 1
        /\ log[r][1].pre.kind = "absent"
        /\ log[r][1].reply.message = "Not Found"
        /\ Done(r)
        /\ resp[r].status = 404

\* C3: a delete whose path resolves to a listing with N entries of type file
\* issues exactly N deleteFile calls and answers 200 with success: true and
\* N results, whichever of the N deletes fail; a failed one has an error
\* field instead of success.
C3_DirectoryDelete ==
    \A r \in Slots :
        ListedDir(r) =>
            LET N == Len(ListedFiles(r)) IN
            /\ Cardinality(CallsOf(r, "deleteFile")) <= N
            /\ Done(r) =>
                /\ Cardinality(CallsOf(r, "deleteFile")) = N
                /\ resp[r].status = 200
                /\ resp[r].success = "true"
                /\ Len(resp[r].results) = N
                /\ \A j \in 1..N :
                    IF log[r][j + 1].reply.status = "ok"
                    THEN /\ resp[r].results[j].success = "true"
                         /\ resp[r].results[j].error = <<>>
                    ELSE /\ resp[r].results[j].success = "absent"
                         /\ resp[r].results[j].error = <<log[r][j + 1].reply.message>>

C3_Witness ==
    \E r \in Slots :
        /\ ListedDir(r)
        /\ Done(r)
        /\ Len(ListedFiles(r)) = DirFiles
        /\ resp[r].success = "true"
        /\ \E j \in 1..Len(resp[r].results) : resp[r].results[j].error # <<>>
        /\ \E j \in 1..Len(resp[r].results) : resp[r].results[j].success = "true"

\* C8: in a directory delete the deleteFile calls are issued one at a time,
\* each after the previous one has returned, for the file entries of the
\* listing in the listing's order, each once, whether or not earlier deletes
\* failed; results holds their outcomes in that order; entries that are not
\* files are not deleted and have no result.
C8_SequentialBatch ==
    \A r \in Slots :
        ListedDir(r) =>
            LET F == ListedFiles(r)
                n == Len(log[r]) - 1
            IN /\ n <= Len(F)
               /\ \A k \in 1..(Len(log[r]) - 1) :
                    /\ IsServed(log[r][k])
                    /\ IsServed(log[r][k + 1]) => log[r][k].at < log[r][k + 1].at
               /\ \A j \in 1..n :
                    /\ log[r][j + 1].op = "deleteFile"
                    /\ log[r][j + 1].path = F[j].path
                    /\ log[r][j + 1].sha = F[j].sha
                    /\ log[r][j + 1].path # SubDir
               /\ ~Done(r) =>
                    /\ Len(loc[r].results) \in {n - 1, n}
                    /\ \A j \in 1..Len(loc[r].results) :
                        loc[r].results[j].path = F[j].path
               /\ Done(r) =>
                    /\ n = Len(F)
                    /\ Len(resp[r].results) = n
                    /\ \A j \in 1..n : resp[r].results[j].path = F[j].path

C8_Witness ==
    \E r \in Slots :
        /\ ListedDir(r)
        /\ Done(r)
        /\ Len(log[r][1].reply.data.entries) = DirFiles + 1
        /\ Len(log[r]) = DirFiles + 1
        /\ log[r][2].reply.status = "error"
        /\ log[r][Len(log[r])].reply.status = "ok"

\* C5: in every create that passes validation, when the path does not exist
\* in the repository the write carries no sha, and when the path exists the
\* write carries the sha the request's preceding getContent resolved for it.
C5_WriteCarriesResolvedSha ==
    \A r \in Slots :
        \A k \in CallsOf(r, "createOrUpdateFileContents") :
            /\ k > 1
            /\ log[r][k - 1].op = "getContent"
            /\ log[r][k - 1].path = log[r][k].path
            /\ IsServed(log[r][k - 1])
            /\ log[r][k - 1].pre.kind = "absent" => log[r][k].sha = NoSha
            /\ log[r][k - 1].pre.kind = "file" =>
                /\ log[r][k - 1].reply.status = "ok"
                /\ log[r][k].sha = log[r][k - 1].reply.data.sha
                /\ log[r][k].sha = BlobSha(log[r][k - 1].pre.content)

\* C6: every failed call to the hosting API on a path that is not absent
\* makes the handler answer 500 with the call's error message as
\* {error: message}.
C6_RemoteFailureIs500 ==
    \A r \in Slots :
        Done(r) =>
            \A k \in 1..Len(log[r]) :
                (/\ log[r][k].reply.status = "error"
                 /\ log[r][k].reply.message # "Not Found"
                 /\ log[r][k].pre.kind # "absent") =>
                    /\ resp[r].status = 500
                    /\ resp[r].error = <<log[r][k].reply.message>>

\* Call k of request r carries the sha an earlier successful getContent of
\* the same request resolved for the call's path.
ResolvedBefore(r, k) ==
    \E j \in 1..(k - 1) :
        /\ log[r][j].op = "getContent"
        /\ log[r][j].reply.status = "ok"
        /\ \/ /\ log[r][j].path = log[r][k].path
              /\ log[r][j].reply.data.kind = "file"
              /\ log[r][j].reply.data.sha = log[r][k].sha
           \/ \E i \in 1..Len(log[r][j].reply.data.entries) :
                /\ log[r][j].reply.data.entries[i].path = log[r][k].path
                /\ log[r][j].reply.data.entries[i].sha = log[r][k].sha

\* C9: every deleteFile call, and every createOrUpdateFileContents call on a
\* path that holds a file, is preceded in its request by a successful
\* getContent that resolved the sha the call carries.
C9_ShaResolvedFirst ==
    \A r \in Slots :
        \A k \in 1..Len(log[r]) :
            (\/ log[r][k].op = "deleteFile"
             \/ /\ log[r][k].op = "createOrUpdateFileContents"
                /\ IsServed(log[r][k])
                /\ log[r][k].pre.kind = "file") =>
                ResolvedBefore(r, k)

\* A request to a dedicated route in slot 1 and the same request to
\* /api/claude in slot 2.
Twins ==
    /\ req[1].route \in {"list", "delete", "create"}
    /\ req[2] = ViaClaude(req[1], Str(req[1].route))

CallOf(e) == <<e.op, e.path, e.sha, e.content, e.message>>

Shorter == IF Len(log[1]) <= Len(log[2]) THEN Len(log[1]) ELSE Len(log[2])

\* The first n calls of the two requests were the same calls and the hosting
\* API gave them the same results.
AgreeUpTo(n) ==
    \A j \in 1..n :
        /\ j <= Shorter
        /\ CallOf(log[1][j]) = CallOf(log[2][j])
        /\ IsServed(log[1][j])
        /\ log[1][j].reply = log[2][j].reply

Resolved(e) ==
    /\ e.op = "getContent"
    /\ e.reply.status = "ok" \/ e.reply = Err("Not Found")

\* Two authorized requests that each resolved the file "a" and then sent a
\* delete or a write for it, both lookups served before either mutation.
Raced ==
    /\ req[1] \in Mutators
    /\ req[2] \in Mutators
    /\ \A r \in Slots :
        /\ Done(r)
        /\ Len(log[r]) = 2
        /\ Resolved(log[r][1])
        /\ log[r][2].op # "getContent"
    /\ \A r, s \in Slots : log[r][1].at < log[s][2].at

Accepted(r) == log[r][2].reply.status = "ok"

\* What a mutation leaves at its path when the hosting API accepts it.
Left(e) == IF e.op = "deleteFile" THEN Absent ELSE File(FromBase64(e.content))

ShaOf(st) == IF st.kind = "file" THEN BlobSha(st.content) ELSE NoSha

\* The mutation of request r was served before the other request's.
First(r) == \A s \in Slots : log[r][2].at <= log[s][2].at

OneWins ==
    /\ ~(Accepted(1) /\ Accepted(2))
    /\ \A r \in Slots : ~Accepted(r) => resp[r].status = 500
    /\ \A r \in Slots : Accepted(r) => files["a"] = Left(log[r][2])

\* C10 as stated: of two requests that mutate the same path and both resolve
\* it before either mutates it, the hosting API accepts at most one; the
\* other answers 500 and the file stays as the accepted mutation left it.
C10_AtMostOneAccepted == Raced => OneWins

\* C10, amended: the same, provided the mutation the hosting API accepts
\* first changes the sha of the path (it deletes the file, creates it, or
\* writes content that differs from the file's content).
C10_AtMostOneAcceptedIfShaChanges ==
    (/\ Raced
     /\ \A r \in Slots :
            (Accepted(r) /\ First(r)) =>
                ShaOf(Left(log[r][2])) # ShaOf(log[r][2].pre)) => OneWins

C10_Witness ==
    /\ Raced
    /\ \E r \in Slots :
        /\ Accepted(r)
        /\ First(r)
        /\ log[r][2].op = "createOrUpdateFileContents"
        /\ log[r][2].pre.kind = "file"
        /\ ShaOf(Left(log[r][2])) # ShaOf(log[r][2].pre)
        /\ \E s \in Slots :
            /\ s # r
            /\ log[s][2].op = "createOrUpdateFileContents"
            /\ log[s][2].reply.message = "Conflict"
            /\ resp[s].status = 500
            /\ resp[r].status = 200

====
